---- MODULE Spec2Model ----
(***************************************************************************)
(* Reactive layer of the Kubernetes master charm                           *)
(* (cluster/juju/layers/kubernetes-master/reactive/kubernetes_master.py).  *)
(*                                                                         *)
(* The three handlers install, start_master and launch_dns are gated by    *)
(* flags of the process-wide flag store.  A handler invocation runs to     *)
(* completion before another starts, so each invocation is one step.       *)
(* Exit codes of external commands and the output of dpkg are inputs.      *)
(*                                                                         *)
(* Python strings that the code only passes around are TLA+ strings; a     *)
(* string the code takes apart (the dpkg output, a CIDR) is a sequence of  *)
(* tokens.  A handler body maps local state records (the program state,    *)
(* the trace, the pending exception err and the last returned value ret)   *)
(* to the records it may leave; once err is set (an exception was raised)  *)
(* later statements are skipped.                                           *)
(***************************************************************************)
EXTENDS Integers, Sequences, FiniteSets, TLC

VARIABLES
    flags,      \* the flag store: set of flag names that are set
    status,     \* last hookenv.status_set: <<level, message>>
    files,      \* filesystem: path -> [exists, source, context]
    dirs,       \* working directories that exist under the charm directory
    dpkg,       \* output of `dpkg --print-architecture` on this machine
    config,     \* hookenv.config()
    kv,         \* unitdata.kv()
    started,    \* services whose `systemctl start` has exited 0 at some time
    handler,    \* handler invoked last
    trace,      \* side effects of the last invocation, in order
    err,        \* exception that ended the last invocation, or "none"
    cidr,       \* argument of get_dns_ip and get_sdn_ip called on their own
    dns_ip,     \* what get_dns_ip(cidr) returned, <<>> before the call
    sdn_ip      \* what get_sdn_ip(cidr) returned, <<>> before the call

vars == <<flags, status, files, dirs, dpkg, config, kv, started, handler, trace, err,
          cidr, dns_ip, sdn_ip>>

\* Largest exit code an external command is given.
MaxRc == 1

ReturnCodes == 0..MaxRc

----------------------------------------------------------------------------
\* Names

Services == <<"kube-apiserver", "kube-controller-manager", "kube-scheduler", "kube-dns">>

MasterServices == <<"kube-apiserver", "kube-controller-manager", "kube-scheduler">>

ServiceSet == {Services[i] : i \in 1..Len(Services)}

MasterServiceSet == {MasterServices[i] : i \in 1..Len(MasterServices)}

\* '{0}.available'.format(service)
AvailableFlag(service) ==
    CASE service = "kube-apiserver" -> "kube-apiserver.available"
      [] service = "kube-controller-manager" -> "kube-controller-manager.available"
      [] service = "kube-scheduler" -> "kube-scheduler.available"
      [] service = "kube-dns" -> "kube-dns.available"

InstalledFlag == "kube_master_components.installed"

CAFlag == "k8s.certificate.authority available"

EtcdFlag == "etcd.available"

\* 'systemctl start {0}'.format(service_name)
StartCmd(service_name) ==
    CASE service_name = "kube-apiserver" -> "systemctl start kube-apiserver"
      [] service_name = "kube-controller-manager" -> "systemctl start kube-controller-manager"
      [] service_name = "kube-scheduler" -> "systemctl start kube-scheduler"
      [] service_name = "kube-dns" -> "systemctl start kube-dns"

TarCmd == "tar -xvzf files/kubernetes.tar.gz -C files"

ProbeCmd == "kubectl cluster-info"

GetNamespaceCmd == "kubectl get namespace kube-system"

CreateNamespaceCmd == "kubectl create namespace kube-system"

\* '{0}.service'.format(service_name)
UnitSource(service_name) ==
    CASE service_name = "kube-apiserver" -> "kube-apiserver.service"
      [] service_name = "kube-controller-manager" -> "kube-controller-manager.service"
      [] service_name = "kube-scheduler" -> "kube-scheduler.service"
      [] service_name = "kube-dns" -> "kube-dns.service"

\* os.path.join('/etc/systemd/system', service_name)
UnitTarget(service_name) ==
    CASE service_name = "kube-apiserver" -> "/etc/systemd/system/kube-apiserver"
      [] service_name = "kube-controller-manager" -> "/etc/systemd/system/kube-controller-manager"
      [] service_name = "kube-scheduler" -> "/etc/systemd/system/kube-scheduler"
      [] service_name = "kube-dns" -> "/etc/systemd/system/kube-dns"

\* '{0}.defaults'.format(service_name)
DefaultsSource(service_name) ==
    CASE service_name = "kube-apiserver" -> "kube-apiserver.defaults"
      [] service_name = "kube-controller-manager" -> "kube-controller-manager.defaults"
      [] service_name = "kube-scheduler" -> "kube-scheduler.defaults"
      [] service_name = "kube-dns" -> "kube-dns.defaults"

\* os.path.join('/etc/defaults/{0}'.format(service_name), service_name)
DefaultsTarget(service_name) ==
    CASE service_name = "kube-apiserver" -> "/etc/defaults/kube-apiserver/kube-apiserver"
      [] service_name = "kube-controller-manager" -> "/etc/defaults/kube-controller-manager/kube-controller-manager"
      [] service_name = "kube-scheduler" -> "/etc/defaults/kube-scheduler/kube-scheduler"
      [] service_name = "kube-dns" -> "/etc/defaults/kube-dns/kube-dns"

EtcdDir == "/etc/ssl/etcd"

\* the CA path mistaken for the certificate path
EtcdCa_as_cert == "/etc/ssl/etcd/client-cert.pem"

EtcdCa == "/etc/ssl/etcd/client-ca.pem"

EtcdKey == "/etc/ssl/etcd/client-key.pem"

EtcdCert == "/etc/ssl/etcd/client-cert.pem"

RenderedKubeDir == "files/kubernetes"

RenderedManifestDir == "files/manifests"

RenderTargets == {UnitTarget(s) : s \in ServiceSet} \cup {DefaultsTarget(s) : s \in ServiceSet}

Paths == RenderTargets \cup {EtcdCa, EtcdKey, EtcdCert}

SupportedArchitectures == {<<"amd64">>, <<"arm">>, <<"arm64">>, <<"ppc64le">>}

Whitespace == {" ", "\n", "\t"}

----------------------------------------------------------------------------
\* Dictionaries

EmptyDict == [k \in {} |-> 0]

\* F applied to the value of v (v is evaluated once)
Let(v, F(_)) == CHOOSE r \in {F(x) : x \in {v}} : TRUE

\* dict.update: keys of `new` overwrite those of `d`
Update(d, new) ==
    Let(<<d, new>>, LAMBDA p :
        [k \in (DOMAIN p[1]) \cup (DOMAIN p[2]) |->
            IF k \in DOMAIN p[2] THEN p[2][k] ELSE p[1][k]])

NoFile == [exists |-> FALSE, source |-> "", context |-> EmptyDict]

----------------------------------------------------------------------------
\* The local state of one handler invocation: the program state, the trace
\* of side effects, the pending exception err and the value ret returned by
\* the last call.  An external command may exit with any code, so a piece
\* of code maps a set of local states to the set of local states it may
\* leave.

Log(x, kind, a, b, rc) == [x EXCEPT !.trace = Append(@, <<kind, a, b, rc>>)]

Raise(x, e) == [x EXCEPT !.err = e]

\* The statement F executed in each state of S: where an exception is
\* pending the statement is skipped.
Step(S, F(_)) == UNION {IF x.err = "none" THEN F(x) ELSE {x} : x \in S}

status_set(S, level, message) ==
    Step(S, LAMBDA x : {Log([x EXCEPT !.status = <<level, message>>],
                            "status_set", level, message, 0)})

set_state(S, flag) ==
    Step(S, LAMBDA x : {Log([x EXCEPT !.flags = @ \cup {flag}], "set_state", flag, "", 0)})

remove_state(S, flag) ==
    Step(S, LAMBDA x : {Log([x EXCEPT !.flags = @ \ {flag}], "remove_state", flag, "", 0)})

\* hookenv.log
log(S, message) == Step(S, LAMBDA x : {Log(x, "log", message, "", 0)})

\* subprocess.call: runs the command and returns its exit code
call(S, cmd) ==
    Step(S, LAMBDA x : {[Log(x, "call", cmd, "", rc) EXCEPT !.ret = rc] : rc \in ReturnCodes})

\* check_call without the check: the exit code is ignored
check_call_unchecked(S, cmd) == call(S, cmd)

\* subprocess.check_call: raises CalledProcessError on a non-zero exit code
check_call(S, cmd) ==
    Step(call(S, cmd), LAMBDA x : {IF x.ret # 0 THEN Raise(x, "CalledProcessError") ELSE x})

----------------------------------------------------------------------------
\* install (lines 18-34)

\* Replacement fields of 'install {0}/{1} {3}' and the number of arguments
\* that .format(files_dir, service, dest_dir) is given.
InstallFormatFields == {0, 1, 3}

InstallFormatArgs == 3

\* str.format raises IndexError for a replacement index that has no argument
format_raises(fields, nargs) == \E i \in fields : i >= nargs

\* the copy command of a binary
InstallCmd(service) ==
    CASE service = "kube-apiserver" -> "install files/kube-apiserver /usr/local/bin/"
      [] service = "kube-controller-manager" -> "install files/kube-controller-manager /usr/local/bin/"
      [] service = "kube-scheduler" -> "install files/kube-scheduler /usr/local/bin/"
      [] service = "kube-dns" -> "install files/kube-dns /usr/local/bin/"

\* 'Unable to install {0}'.format(service)
UnableToInstall(service) ==
    CASE service = "kube-apiserver" -> "Unable to install kube-apiserver"
      [] service = "kube-controller-manager" -> "Unable to install kube-controller-manager"
      [] service = "kube-scheduler" -> "Unable to install kube-scheduler"
      [] service = "kube-dns" -> "Unable to install kube-dns"

\* one iteration of the loop of install
install_service(S, service) ==
    Step(S, LAMBDA x :
        IF format_raises(InstallFormatFields, InstallFormatArgs)
        THEN {Raise(x, "IndexError")}
        ELSE Step(call({x}, InstallCmd(service)),
                  LAMBDA y : {IF y.ret # 0 THEN Raise(y, UnableToInstall(service)) ELSE y}))

RECURSIVE install_loop(_, _)
install_loop(S, i) ==
    IF i > Len(Services) THEN S
    ELSE install_loop(install_service(S, Services[i]), i + 1)

\* the body of install; the exit code of tar is overwritten unread
install(S) == install_loop(call(S, TarCmd), 1)

install_gate(f) == InstalledFlag \notin f

----------------------------------------------------------------------------
\* arch (lines 80-92)

RECURSIVE rstrip(_)
rstrip(out) ==
    Let(out, LAMBDA o :
        IF o # <<>> /\ o[Len(o)] \in Whitespace
        THEN rstrip(SubSeq(o, 1, Len(o) - 1))
        ELSE o)

\* arch() without the validation
architecture_supported_any(architecture) == TRUE

architecture_supported(architecture) == architecture \in SupportedArchitectures

UnsupportedArchitecture == "Unsupported machine architecture"

DpkgCmd == "dpkg --print-architecture"

\* returns the architecture in ret, or raises
arch(S) ==
    Step(S, LAMBDA x :
        LET architecture == rstrip(x.dpkg)
            queried == Log(x, "check_output", DpkgCmd, "", 0)
        IN  IF ~architecture_supported(architecture)
            THEN Step(status_set({queried}, "blocked", UnsupportedArchitecture),
                      LAMBDA y : {Raise(y, UnsupportedArchitecture)})
            ELSE {[queried EXCEPT !.ret = architecture]})

----------------------------------------------------------------------------
\* get_dns_ip, get_sdn_ip, gather_sdn_data (lines 144-182)

\* str.split(sep) on a sequence of tokens
RECURSIVE split(_, _)
split(str, sep) ==
    Let(str, LAMBDA s :
        IF \A i \in 1..Len(s) : s[i] # sep THEN <<s>>
        ELSE Let(CHOOSE k \in 1..Len(s) : s[k] = sep /\ \A j \in 1..(k - 1) : s[j] # sep,
                 LAMBDA i : <<SubSeq(s, 1, i - 1)>> \o split(SubSeq(s, i + 1, Len(s)), sep)))

\* sep.join(parts)
RECURSIVE join(_, _)
join(list, sep) ==
    Let(list, LAMBDA parts :
        IF parts = <<>> THEN <<>>
        ELSE IF Len(parts) = 1 THEN parts[1]
        ELSE parts[1] \o <<sep>> \o join(Tail(parts), sep))

\* get_dns_ip without the slice that drops the last octet
get_dns_ip_all_octets(c) ==
    Let(split(split(c, "/")[1], "."), LAMBDA octets : join(octets, ".") \o <<".", "10">>)

get_dns_ip(c) ==
    Let(split(split(c, "/")[1], "."), LAMBDA octets :
        join(SubSeq(octets, 1, Len(octets) - 1), ".") \o <<".", "10">>)

get_sdn_ip(c) ==
    Let(split(split(c, "/")[1], "."), LAMBDA octets :
        join(SubSeq(octets, 1, Len(octets) - 1), ".") \o <<".", "1">>)

\* dict.get: None (here the empty sequence) for a missing key
Get(d, k) == IF k \in DOMAIN d THEN d[k] ELSE <<>>

gather_sdn_data(cfg, db) ==
    LET subnet == Get(db, "sdn_subnet")
        pillar == [dns_server |-> IF subnet # <<>> THEN get_dns_ip(subnet)
                                  ELSE get_dns_ip(Get(cfg, "cidr")),
                   dns_replicas |-> 1,
                   dns_domain |-> Get(cfg, "dns_domain")]
    IN  [pillar |-> pillar]

----------------------------------------------------------------------------
\* render_service, render_files (lines 95-141, 194-203)

\* charmhelpers render(source, target, context): overwrites target
render(S, source, target, context) ==
    Step(S, LAMBDA x :
        {Log([x EXCEPT !.files[target] =
                  [exists |-> TRUE, source |-> source, context |-> context]],
             "render", source, target, 0)})

\* render_service without the defaults file
render_service_unit_only(S, service_name, context) ==
    render(S, UnitSource(service_name), UnitTarget(service_name), context)

render_service(S, service_name, context) ==
    render(render(S, UnitSource(service_name), UnitTarget(service_name), context),
           DefaultsSource(service_name), DefaultsTarget(service_name), context)

\* reldata.save_client_credentials(key, cert, ca)
save_client_credentials(S, key, cert, ca) ==
    Step(S, LAMBDA x :
        LET cred == [exists |-> TRUE, source |-> "etcd relation", context |-> EmptyDict]
        IN  {Log([x EXCEPT !.files[key] = cred, !.files[cert] = cred, !.files[ca] = cred],
                 "save_client_credentials", EtcdDir, "", 0)})

\* os.makedirs(d) without the test: raises when d exists
ensure_dir_unchecked(S, d) ==
    Step(S, LAMBDA x :
        IF d \in x.dirs THEN {Raise(Log(x, "makedirs", d, "", 0), "FileExistsError")}
        ELSE {Log([x EXCEPT !.dirs = @ \cup {d}], "makedirs", d, "", 0)})

\* if not os.path.exists(d): os.makedirs(d)
ensure_dir(S, d) ==
    Step(S, LAMBDA x :
        IF d \in x.dirs THEN {x}
        ELSE {Log([x EXCEPT !.dirs = @ \cup {d}], "makedirs", d, "", 0)})

\* the argument of render_files: None, or the etcd relation object
None == [present |-> FALSE, connection_string |-> ""]

render_files(S, reldata) ==
    Step(S, LAMBDA x :
        LET context1 == Update(EmptyDict, gather_sdn_data(x.config, x.kv))
            context2 == Update(context1, x.config)
            S1 == IF reldata.present
                  THEN save_client_credentials({x}, EtcdKey, EtcdCert, EtcdCa)
                  ELSE {x}
            context3 == IF reldata.present
                        THEN Update(context2,
                                    [etcd_dir |-> EtcdDir,
                                     connection_string |-> reldata.connection_string,
                                     etcd_ca |-> EtcdCa,
                                     etcd_key |-> EtcdKey,
                                     etcd_cert |-> EtcdCert])
                        ELSE context2
            S2 == ensure_dir(ensure_dir(S1, RenderedKubeDir), RenderedManifestDir)
        IN  Step(arch(S2), LAMBDA y :
                Let(Update(context3,
                           [arch |-> y.ret,
                            master_address |-> "private-address",
                            manifest_directory |-> RenderedManifestDir,
                            public_address |-> "public-address",
                            private_address |-> "private-address"]),
                    LAMBDA context :
                        LET S3 == render_service({y}, "kube-apiserver", context)
                            S4 == render_service(S3, "kube-controller-manager", context)
                            S5 == render_service(S4, "kube-scheduler", context)
                        IN  render_service(S5, "kube-dns", context))))

----------------------------------------------------------------------------
\* start_service (lines 185-191), start_master (lines 37-52)

\* start_service reporting success whatever the exit code
start_service_unchecked(S, service_name) ==
    Step(call(S, StartCmd(service_name)), LAMBDA y :
        {[y EXCEPT !.started = IF y.ret = 0 THEN @ \cup {service_name} ELSE @,
                   !.ret = TRUE]})

\* returns in ret whether the start command exited 0
start_service(S, service_name) ==
    Step(call(S, StartCmd(service_name)), LAMBDA y :
        {[y EXCEPT !.started = IF y.ret = 0 THEN @ \cup {service_name} ELSE @,
                   !.ret = (@ = 0)]})

\* one iteration of the loop of start_master
start_master_service(S, service) ==
    Step(start_service(S, service), LAMBDA y :
        IF y.ret THEN set_state({y}, AvailableFlag(service)) ELSE {y})

\* the loop of start_master leaving at the first start that fails
RECURSIVE start_master_loop_break(_, _)
start_master_loop_break(S, i) ==
    IF i > Len(MasterServices) THEN S
    ELSE Step(start_master_service(S, MasterServices[i]), LAMBDA y :
             IF y.ret THEN start_master_loop_break({y}, i + 1) ELSE {y})

RECURSIVE start_master_loop(_, _)
start_master_loop(S, i) ==
    IF i > Len(MasterServices) THEN S
    ELSE start_master_loop(start_master_service(S, MasterServices[i]), i + 1)

start_master(S, etcd) ==
    LET S1 == status_set(S, "maintenance", "Rendering the Kubernetes master systemd files.")
        S2 == render_files(S1, etcd)
        S3 == status_set(S2, "maintenance", "Starting the Kubernetes master services.")
    IN  start_master_loop(S3, 1)

start_master_gate(f) == CAFlag \in f /\ EtcdFlag \in f

----------------------------------------------------------------------------
\* launch_dns (lines 55-77)

\* launch_dns without the early return
probe_failed_never(return_code) == FALSE

probe_failed(return_code) == return_code # 0

\* launch_dns creating the namespace whatever the check says
namespace_missing_always(return_code) == TRUE

namespace_missing(return_code) == return_code # 0

\* launch_dns starting kube-dns before the files are rendered again
launch_dns_start_first(S) ==
    LET S1 == status_set(S, "maintenance", "Rendering the Kubernetes DNS systemd files.")
    IN  Step(call(S1, ProbeCmd), LAMBDA x :
            IF probe_failed(x.ret)
            THEN remove_state(log({x}, "kubectl command failed, waiting for apiserver to start."),
                              "kubedns.available")
            ELSE Step(call({x}, GetNamespaceCmd), LAMBDA y :
                     LET S2 == IF namespace_missing(y.ret)
                               THEN check_call({y}, CreateNamespaceCmd)
                               ELSE {y}
                     IN  Step(start_service(S2, "kube-dns"), LAMBDA z :
                             Step(render_files({z}, None), LAMBDA w :
                                 IF z.ret THEN set_state({w}, "kube-dns.available") ELSE {w}))))

launch_dns(S) ==
    LET S1 == status_set(S, "maintenance", "Rendering the Kubernetes DNS systemd files.")
    IN  Step(call(S1, ProbeCmd), LAMBDA x :
            IF probe_failed(x.ret)
            THEN remove_state(log({x}, "kubectl command failed, waiting for apiserver to start."),
                              "kubedns.available")
            ELSE Step(call({x}, GetNamespaceCmd), LAMBDA y :
                     LET S2 == IF namespace_missing(y.ret)
                               THEN check_call({y}, CreateNamespaceCmd)
                               ELSE {y}
                         S3 == render_files(S2, None)
                     IN  Step(start_service(S3, "kube-dns"), LAMBDA z :
                             IF z.ret THEN set_state({z}, "kube-dns.available") ELSE {z})))

launch_dns_gate(f) == "apiserver.available" \in f /\ "kube-dns.available" \notin f

----------------------------------------------------------------------------
\* The environment

\* Flags that gate the handlers and that no handler of this file sets: they
\* are set and removed by other layers of the charm.
ExternalFlags == {CAFlag, EtcdFlag, "apiserver.available"}

DpkgOutputs == {<<"amd64", "\n">>, <<"arm", "\n">>, <<"arm64", "\n">>, <<"ppc64le", "\n">>,
                <<"i386", "\n">>, <<"armhf", "\n">>}

Configs == {[cidr |-> <<"10", ".", "1", ".", "0", ".", "0", "/", "16">>,
             dns_domain |-> "cluster.local"]}

KVs == {EmptyDict, [sdn_subnet |-> <<"10", ".", "2", ".", "3", ".", "0", "/", "24">>]}

\* Unit configuration mappings, among them one that has an option named
\* like a key of the etcd block of the context.
AnyConfigs ==
    Configs \cup {[cidr |-> <<"10", ".", "1", ".", "0", ".", "0", "/", "16">>,
                   dns_domain |-> "cluster.local",
                   connection_string |-> "http://127.0.0.1:4001"]}

\* the etcd relation objects handed to start_master
Relations == {[present |-> TRUE, connection_string |-> "https://10.0.0.5:2379"]}

----------------------------------------------------------------------------
\* The state machine

Init ==
    /\ flags = {}
    /\ status = <<"unknown", "">>
    /\ files = [p \in Paths |-> NoFile]
    /\ dirs = {}
    /\ dpkg \in DpkgOutputs
    /\ config \in Configs
    /\ kv \in KVs
    /\ started = {}
    /\ handler = "none"
    /\ trace = <<>>
    /\ err = "none"
    /\ cidr = <<>>
    /\ dns_ip = <<>>
    /\ sdn_ip = <<>>

\* the state a handler invocation starts from
Entry ==
    [flags |-> flags, status |-> status, files |-> files, dirs |-> dirs,
     dpkg |-> dpkg, config |-> config, kv |-> kv, started |-> started,
     trace |-> <<>>, err |-> "none", ret |-> 0]

\* the state a handler invocation leaves
Commit(name, st) ==
    /\ handler' = name
    /\ flags' = st.flags
    /\ status' = st.status
    /\ files' = st.files
    /\ dirs' = st.dirs
    /\ started' = st.started
    /\ trace' = st.trace
    /\ err' = st.err
    /\ UNCHANGED <<dpkg, config, kv, cidr, dns_ip, sdn_ip>>

InvokeInstall ==
    /\ install_gate(flags)
    /\ \E st \in install({Entry}) : Commit("install", st)

InvokeStartMaster ==
    /\ start_master_gate(flags)
    /\ \E etcd \in Relations : \E st \in start_master({Entry}, etcd) : Commit("start_master", st)

InvokeLaunchDns ==
    /\ launch_dns_gate(flags)
    /\ \E st \in launch_dns({Entry}) : Commit("launch_dns", st)

ExternalSet ==
    /\ \E f \in ExternalFlags : f \notin flags /\ flags' = flags \cup {f}
    /\ UNCHANGED <<status, files, dirs, dpkg, config, kv, started, handler, trace, err,
                   cidr, dns_ip, sdn_ip>>

ExternalRemove ==
    /\ \E f \in ExternalFlags : f \in flags /\ flags' = flags \ {f}
    /\ UNCHANGED <<status, files, dirs, dpkg, config, kv, started, handler, trace, err,
                   cidr, dns_ip, sdn_ip>>

Next ==
    \/ InvokeInstall
    \/ InvokeStartMaster
    \/ InvokeLaunchDns
    \/ ExternalSet
    \/ ExternalRemove

Spec == Init /\ [][Next]_vars

\* The handlers on a unit with any of the configuration mappings.
ContextInit ==
    /\ flags = {}
    /\ status = <<"unknown", "">>
    /\ files = [p \in Paths |-> NoFile]
    /\ dirs = {}
    /\ dpkg \in DpkgOutputs
    /\ config \in AnyConfigs
    /\ kv \in KVs
    /\ started = {}
    /\ handler = "none"
    /\ trace = <<>>
    /\ err = "none"
    /\ cidr = <<>>
    /\ dns_ip = <<>>
    /\ sdn_ip = <<>>

ContextSpec == ContextInit /\ [][Next]_vars

\* get_dns_ip and get_sdn_ip called on their own, for each CIDR a.b.c.d/n
\* over a few octets and mask lengths.
Octets == {"0", "10", "255"}

MaskLengths == {"16", "24"}

CIDRs ==
    {<<a, ".", b, ".", c, ".", d, "/", n>> :
        a \in Octets, b \in Octets, c \in Octets, d \in Octets, n \in MaskLengths}

AddressInit ==
    /\ flags = {}
    /\ status = <<"unknown", "">>
    /\ files = [p \in Paths |-> NoFile]
    /\ dirs = {}
    /\ dpkg \in DpkgOutputs
    /\ config \in Configs
    /\ kv \in KVs
    /\ started = {}
    /\ handler = "none"
    /\ trace = <<>>
    /\ err = "none"
    /\ cidr \in CIDRs
    /\ dns_ip = <<>>
    /\ sdn_ip = <<>>

CallGetDnsIp ==
    /\ dns_ip' = get_dns_ip(cidr)
    /\ UNCHANGED <<flags, status, files, dirs, dpkg, config, kv, started, handler, trace,
                   err, cidr, sdn_ip>>

CallGetSdnIp ==
    /\ sdn_ip' = get_sdn_ip(cidr)
    /\ UNCHANGED <<flags, status, files, dirs, dpkg, config, kv, started, handler, trace,
                   err, cidr, dns_ip>>

AddressNext ==
    \/ CallGetDnsIp
    \/ CallGetSdnIp

AddressSpec == AddressInit /\ [][AddressNext]_vars

\* no external command of the invocation exited non-zero
AllExitZero(st) ==
    \A i \in 1..Len(st.trace) : st.trace[i][1] = "call" => st.trace[i][4] = 0

\* An invocation in which every external command exits 0.
InvokeStartMasterOK ==
    /\ start_master_gate(flags)
    /\ \E etcd \in Relations : \E st \in start_master({Entry}, etcd) :
           AllExitZero(st) /\ Commit("start_master", st)

InvokeLaunchDnsOK ==
    /\ launch_dns_gate(flags)
    /\ \E st \in launch_dns({Entry}) : AllExitZero(st) /\ Commit("launch_dns", st)

\* The framework invokes a handler on every event while its gate holds, and
\* no external command fails forever.
FairSpec ==
    /\ Init
    /\ [][Next]_vars
    /\ WF_vars(InvokeInstall)
    /\ WF_vars(InvokeStartMasterOK)
    /\ WF_vars(InvokeLaunchDnsOK)

----------------------------------------------------------------------------
\* Observations on the last invocation

TraceIndex == 1..Len(trace)

\* the command was issued in the last invocation
Issued(cmd) == \E i \in TraceIndex : trace[i][1] = "call" /\ trace[i][2] = cmd

\* the command was issued in the last invocation and exited non-zero
Failed(cmd) == \E i \in TraceIndex : trace[i][1] = "call" /\ trace[i][2] = cmd /\ trace[i][4] # 0

\* the command was issued in the last invocation and exited 0
Succeeded(cmd) == \E i \in TraceIndex : trace[i] = <<"call", cmd, "", 0>>

Did(kind) == \E i \in TraceIndex : trace[i][1] = kind

StartCmds == {StartCmd(s) : s \in ServiceSet}

InstallCmds == {InstallCmd(s) : s \in ServiceSet}

ReadinessFlags == {AvailableFlag(s) : s \in ServiceSet}

ArchitectureUnsupported == rstrip(dpkg) \notin SupportedArchitectures

\* an invocation with trace t reached render_files / rendered
ReachedRender(t) == \E i \in 1..Len(t) : t[i][1] \in {"makedirs", "check_output"}

Rendered(t) == \E i \in 1..Len(t) : t[i][1] = "render"

\* the place of a trace event among the steps of launch_dns
StepOf(e) ==
    CASE e[1] = "call" /\ e[2] = ProbeCmd -> 1
      [] e[1] = "call" /\ e[2] = GetNamespaceCmd -> 2
      [] e[1] = "call" /\ e[2] = CreateNamespaceCmd -> 3
      [] e[1] = "render" -> 4
      [] e[1] = "call" /\ e[2] = StartCmd("kube-dns") -> 5
      [] e[1] = "set_state" -> 6
      [] OTHER -> 0

\* the keys of the etcd block of the render context
EtcdKeys == {"connection_string", "etcd_ca", "etcd_key", "etcd_cert", "etcd_dir"}

----------------------------------------------------------------------------
\* C1: with the CA and etcd flags set from some point on, a supported
\* architecture, fair re-invocation with succeeding commands, and no flag in
\* the store other than the two preconditions and the flags the handlers
\* set, all four readiness flags are eventually set.
C1_Convergence ==
    (/\ ~ArchitectureUnsupported
     /\ <>[](start_master_gate(flags))
     /\ [](flags \subseteq {CAFlag, EtcdFlag} \cup ReadinessFlags))
    => <>(ReadinessFlags \subseteq flags)

\* C2: a readiness flag is set only for a service whose start command has
\* exited 0, and every set_state of an invocation directly follows the
\* successful start command of that flag's service.
C2_FlagOnlyAfterStart ==
    /\ \A s \in ServiceSet : AvailableFlag(s) \in flags => s \in started
    /\ \A i \in TraceIndex :
           trace[i][1] = "set_state" =>
               /\ i > 1
               /\ \E s \in ServiceSet :
                      /\ trace[i][2] = AvailableFlag(s)
                      /\ trace[i - 1] = <<"call", StartCmd(s), "", 0>>

C2_Witness ==
    /\ "kube-dns.available" \in flags
    /\ "kube-scheduler.available" \in flags
    /\ "kube-apiserver.available" \notin flags

\* C3: after an invocation in which the start command of a service exited
\* non-zero, the readiness flag of that service is not set.
C3_FailedStartLeavesFlagUnset ==
    \A s \in ServiceSet : Failed(StartCmd(s)) => AvailableFlag(s) \notin flags

\* C4: a readiness flag of a master service that is set while the CA or the
\* etcd precondition is absent is eventually removed, unless the
\* precondition returns.
C4_ClearedOnRegression ==
    \A s \in {"kube-apiserver", "kube-controller-manager", "kube-scheduler"} :
        [](AvailableFlag(s) \in flags /\ ~start_master_gate(flags)
            => <>(AvailableFlag(s) \notin flags \/ start_master_gate(flags)))

\* C5: a launch_dns invocation whose cluster probe exits non-zero ends with
\* kube-dns.available unset, having issued no command but the probe, no
\* render and no set_state.
C5_ProbeFailureStops ==
    (handler = "launch_dns" /\ Failed(ProbeCmd)) =>
        /\ "kube-dns.available" \notin flags
        /\ err = "none"
        /\ \A i \in TraceIndex : trace[i][1] = "call" => trace[i][2] = ProbeCmd
        /\ ~Did("render") /\ ~Did("set_state") /\ ~Did("check_output")
        /\ ~Did("makedirs") /\ ~Did("save_client_credentials")

C5_Witness == handler = "launch_dns" /\ Failed(ProbeCmd) /\ "kube-apiserver.available" \in flags

\* C6: in a launch_dns invocation the namespace creation command is issued
\* at most once, and only directly after an existence check that exited
\* non-zero; never after a check that exited 0.
C6_CreateOnlyWhenMissing ==
    handler = "launch_dns" =>
        /\ (Succeeded(ProbeCmd) /\ Succeeded(GetNamespaceCmd)) => ~Issued(CreateNamespaceCmd)
        /\ \A i \in TraceIndex :
               (trace[i][1] = "call" /\ trace[i][2] = CreateNamespaceCmd) =>
                   /\ i > 1
                   /\ trace[i - 1][1] = "call"
                   /\ trace[i - 1][2] = GetNamespaceCmd
                   /\ trace[i - 1][4] # 0
                   /\ \A j \in TraceIndex :
                          (trace[j][1] = "call" /\ trace[j][2] = CreateNamespaceCmd) => j = i

C6_Witness ==
    /\ handler = "launch_dns"
    /\ Succeeded(ProbeCmd) /\ Succeeded(GetNamespaceCmd)
    /\ Issued(StartCmd("kube-dns"))

\* C7: after an install invocation in which the extraction exited 0 and no
\* copy exited non-zero, the installed flag is set (so that install is not
\* enabled again).
C7_InstalledAfterInstall ==
    (handler = "install" /\ Succeeded(TarCmd) /\ \A c \in InstallCmds : ~Failed(c))
        => (InstalledFlag \in flags /\ ~install_gate(flags))

\* C8: install issues the copies in the order of Services; it ends either
\* without error after all four copies exited 0, or with the error 'Unable
\* to install X' directly after the copy of X exited non-zero, X being the
\* last binary a copy was attempted for.
C8_InstallOrderAndFailure ==
    handler = "install" =>
        LET copies == SelectSeq(trace, LAMBDA e : e[1] = "call" /\ e[2] \in InstallCmds)
            n == Len(copies)
        IN  /\ n <= Len(Services)
            /\ \A k \in 1..n : copies[k][2] = InstallCmd(Services[k])
            /\ \A k \in 1..(n - 1) : copies[k][4] = 0
            /\ IF err = "none"
               THEN n = Len(Services) /\ copies[n][4] = 0
               ELSE n >= 1 /\ copies[n][4] # 0 /\ err = UnableToInstall(Services[n])

\* C9: when the trimmed dpkg output is not a supported architecture, an
\* invocation that reaches arch() ends with the exception of arch(), the
\* status 'blocked' set last, no render, no start command and no set_state,
\* and no unit or defaults file exists; when it is supported, every file
\* rendered carries it, without its trailing whitespace, as the context's
\* arch.
C9_UnsupportedArchAborts ==
    /\ (ArchitectureUnsupported /\ Did("check_output")) =>
           /\ err = UnsupportedArchitecture
           /\ status = <<"blocked", UnsupportedArchitecture>>
           /\ trace[Len(trace)] = <<"status_set", "blocked", UnsupportedArchitecture, 0>>
           /\ ~Did("render") /\ ~Did("set_state")
           /\ \A c \in StartCmds : ~Issued(c)
    /\ ArchitectureUnsupported =>
           /\ \A p \in RenderTargets : ~files[p].exists
           /\ flags \cap ReadinessFlags = {}
    /\ (~ArchitectureUnsupported /\ Did("check_output")) => err = "none"
    /\ \A p \in RenderTargets :
           files[p].exists =>
               LET a == files[p].context["arch"]
               IN  /\ a \in SupportedArchitectures
                   /\ Len(a) <= Len(dpkg)
                   /\ SubSeq(dpkg, 1, Len(a)) = a
                   /\ \A i \in (Len(a) + 1)..Len(dpkg) : dpkg[i] \in Whitespace

C9_Witness ==
    /\ ArchitectureUnsupported
    /\ handler = "launch_dns"
    /\ Did("check_output")
    /\ Succeeded(CreateNamespaceCmd)

\* C10: a launch_dns invocation whose namespace creation command exits
\* non-zero ends with CalledProcessError, without a render, without the
\* kube-dns start command and without setting kube-dns.available.
C10_CreateFailureIsFatal ==
    (handler = "launch_dns" /\ Failed(CreateNamespaceCmd)) =>
        /\ err = "CalledProcessError"
        /\ Succeeded(ProbeCmd) /\ Failed(GetNamespaceCmd)
        /\ trace[Len(trace)][2] = CreateNamespaceCmd
        /\ ~Did("render") /\ ~Did("check_output") /\ ~Did("set_state")
        /\ ~Issued(StartCmd("kube-dns"))
        /\ "kube-dns.available" \notin flags

C10_Witness == handler = "launch_dns" /\ Failed(CreateNamespaceCmd) /\ dirs # {}

\* C11 (as claimed): the context that render_files builds has the five etcd
\* keys, with the fixed directory and the three fixed paths, when it is
\* given a descriptor (start_master), and none of the five keys when it is
\* given none (launch_dns), whatever the unit configuration mapping.
C11_EtcdKeysIffDescriptor ==
    \A p \in RenderTargets :
        LET c == files[p].context
        IN  /\ (handler = "start_master" /\ Did("render")) =>
                   /\ EtcdKeys \subseteq DOMAIN c
                   /\ c["etcd_dir"] = "/etc/ssl/etcd"
                   /\ c["etcd_ca"] = "/etc/ssl/etcd/client-ca.pem"
                   /\ c["etcd_key"] = "/etc/ssl/etcd/client-key.pem"
                   /\ c["etcd_cert"] = "/etc/ssl/etcd/client-cert.pem"
                   /\ c["connection_string"] \in {r.connection_string : r \in Relations}
            /\ (handler = "launch_dns" /\ Did("render")) => EtcdKeys \cap DOMAIN c = {}

\* C11 (amended): as above with a descriptor; without a descriptor the
\* context has one of the five keys exactly when the unit configuration
\* mapping has it, and then with the configuration's value.
C11_EtcdKeysFromDescriptorOrConfig ==
    \A p \in RenderTargets :
        LET c == files[p].context
        IN  /\ (handler = "start_master" /\ Did("render")) =>
                   /\ EtcdKeys \subseteq DOMAIN c
                   /\ c["etcd_dir"] = "/etc/ssl/etcd"
                   /\ c["etcd_ca"] = "/etc/ssl/etcd/client-ca.pem"
                   /\ c["etcd_key"] = "/etc/ssl/etcd/client-key.pem"
                   /\ c["etcd_cert"] = "/etc/ssl/etcd/client-cert.pem"
                   /\ c["connection_string"] \in {r.connection_string : r \in Relations}
            /\ (handler = "launch_dns" /\ Did("render")) =>
                   \A k \in EtcdKeys :
                       /\ k \in DOMAIN c <=> k \in DOMAIN config
                       /\ k \in DOMAIN c => c[k] = config[k]

C11_Witness ==
    /\ handler = "launch_dns" /\ Did("render")
    /\ "connection_string" \in DOMAIN files[UnitTarget("kube-dns")].context
    /\ "etcd_dir" \notin DOMAIN files[UnitTarget("kube-dns")].context

\* C12: for a CIDR a.b.c.d/n, get_dns_ip returns a.b.c.10 and get_sdn_ip
\* returns a.b.c.1: the first three octets of the CIDR, unchanged, and the
\* new last octet; the mask and the old last octet are gone.
C12_LastOctetReplaced ==
    /\ dns_ip # <<>> => dns_ip = <<cidr[1], ".", cidr[3], ".", cidr[5], ".", "10">>
    /\ sdn_ip # <<>> => sdn_ip = <<cidr[1], ".", cidr[3], ".", cidr[5], ".", "1">>

C12_Witness ==
    /\ dns_ip # <<>> /\ sdn_ip # <<>>
    /\ cidr[1] = "255" /\ cidr[5] = "0" /\ cidr[7] = "255" /\ cidr[9] = "16"

\* C13: when a handler that has rendered is invoked again next (the same
\* descriptor, configuration, SDN subnet and architecture), the second
\* render_files raises nothing although the directories and the files
\* exist, and leaves each of the eight files, and the directories, as the
\* first left them.
C13_RenderIdempotent ==
    [][(handler \in {"start_master", "launch_dns"} /\ Rendered(trace) /\ handler' = handler) =>
           /\ files' = files
           /\ dirs' = dirs
           /\ \A p \in RenderTargets : files'[p].exists
           /\ (handler' = "start_master" \/ ReachedRender(trace')) =>
                  (err' = "none" /\ Rendered(trace'))]_vars

C13_Witness ==
    /\ handler = "start_master" /\ Rendered(trace) /\ ~Did("makedirs")
    /\ Failed(StartCmd("kube-apiserver")) /\ "kube-apiserver.available" \in flags
    /\ "apiserver.available" \notin flags

\* C14: in every state where kube-apiserver.available, the flag that
\* start_master sets after starting the API server, is set and
\* kube-dns.available is not, the gate of launch_dns holds.
C14_GateConsistency ==
    ("kube-apiserver" \in started
     /\ AvailableFlag("kube-apiserver") \in flags
     /\ "kube-dns.available" \notin flags)
        => launch_dns_gate(flags)

\* C15: a launch_dns invocation whose probe exits non-zero removes the flag
\* that gates launch_dns and that launch_dns sets after a successful start
\* of kube-dns, and touches no other flag name.
C15_ProbeFailureClearsGateFlag ==
    (handler = "launch_dns" /\ Failed(ProbeCmd)) =>
        /\ \E i \in TraceIndex : trace[i] = <<"remove_state", AvailableFlag("kube-dns"), "", 0>>
        /\ \A i \in TraceIndex :
               trace[i][1] \in {"remove_state", "set_state"} =>
                   /\ trace[i][2] = AvailableFlag("kube-dns")
                   /\ ~launch_dns_gate({"apiserver.available", trace[i][2]})

\* C16: the commands, renders and set_state of a launch_dns invocation
\* occur in the order probe, namespace check, namespace creation, renders,
\* kube-dns start, set_state, each command at most once; and
\* kube-dns.available is set only as the last step, directly after the
\* kube-dns start exited 0, which directly follows the renders of all eight
\* files, after the probe exited 0 and the namespace check or the namespace
\* creation exited 0.
C16_LaunchDnsOrder ==
    handler = "launch_dns" =>
        /\ \A i, j \in TraceIndex :
               (i < j /\ StepOf(trace[i]) # 0 /\ StepOf(trace[j]) # 0) =>
                   /\ StepOf(trace[i]) <= StepOf(trace[j])
                   /\ StepOf(trace[i]) = StepOf(trace[j]) => trace[i][1] = "render"
        /\ \A i \in TraceIndex :
               trace[i][1] = "set_state" =>
                   /\ trace[i] = <<"set_state", "kube-dns.available", "", 0>>
                   /\ i = Len(trace)
                   /\ i > 10
                   /\ trace[i - 1] = <<"call", StartCmd("kube-dns"), "", 0>>
                   /\ \A k \in (i - 9)..(i - 2) : trace[k][1] = "render"
                   /\ {trace[k][3] : k \in (i - 9)..(i - 2)} = RenderTargets
                   /\ Succeeded(ProbeCmd)
                   /\ Succeeded(GetNamespaceCmd) \/ Succeeded(CreateNamespaceCmd)
        /\ "kube-dns.available" \in flags => Did("set_state")

C16_Witness ==
    /\ handler = "launch_dns"
    /\ "kube-dns.available" \in flags
    /\ Failed(GetNamespaceCmd) /\ Succeeded(CreateNamespaceCmd)
    /\ Did("makedirs")

\* C17: a start_master invocation that has rendered issues exactly the
\* three start commands, once each, in the order kube-apiserver,
\* kube-controller-manager, kube-scheduler, whatever the exit codes of the
\* earlier ones; it sets the flag of a service exactly when that service's
\* start exited 0, directly after it; and it raises nothing.  This holds of
\* every invocation, so of the one following a failed start.
C17_EveryStartAttempted ==
    (handler = "start_master" /\ Rendered(trace)) =>
        LET starts == SelectSeq(trace, LAMBDA e : e[1] = "call")
        IN  /\ err = "none"
            /\ Len(starts) = Len(MasterServices)
            /\ \A k \in 1..Len(starts) : starts[k][2] = StartCmd(MasterServices[k])
            /\ \A i, j \in TraceIndex :
                   (trace[i][1] = "render" /\ trace[j][1] = "call") => i < j
            /\ \A i \in TraceIndex : \A s \in MasterServiceSet :
                   (trace[i][1] = "call" /\ trace[i][2] = StartCmd(s)) =>
                       IF trace[i][4] = 0
                       THEN i < Len(trace)
                            /\ trace[i + 1] = <<"set_state", AvailableFlag(s), "", 0>>
                       ELSE \A j \in TraceIndex :
                                trace[j] # <<"set_state", AvailableFlag(s), "", 0>>

C17_Witness ==
    /\ handler = "start_master" /\ Rendered(trace)
    /\ Failed(StartCmd("kube-apiserver"))
    /\ Succeeded(StartCmd("kube-controller-manager"))
    /\ Failed(StartCmd("kube-scheduler"))
    /\ flags \cap ReadinessFlags = {"kube-controller-manager.available"}
    /\ ~Did("makedirs")

\* C18: an install invocation in which the extraction exited 0 and no copy
\* exited non-zero ends without error, having issued the copy command of
\* each of the four binaries exactly once.
C18_InstallCopiesAll ==
    (handler = "install" /\ Succeeded(TarCmd) /\ \A c \in InstallCmds : ~Failed(c)) =>
        /\ err = "none"
        /\ \A s \in ServiceSet :
               Cardinality({i \in TraceIndex :
                               trace[i] = <<"call", InstallCmd(s), "", 0>>}) = 1

\* the first trace event of a kind, 0 when there is none
First(kind) ==
    IF Did(kind) THEN CHOOSE i \in TraceIndex :
                          trace[i][1] = kind /\ \A j \in 1..(i - 1) : trace[j][1] # kind
    ELSE 0

\* every file of every service was rendered, from its template, in the last
\* invocation, and both working directories exist
AllRendered ==
    /\ \A s \in ServiceSet :
           /\ \E i \in TraceIndex : trace[i] = <<"render", UnitSource(s), UnitTarget(s), 0>>
           /\ \E i \in TraceIndex : trace[i] = <<"render", DefaultsSource(s), DefaultsTarget(s), 0>>
           /\ files[UnitTarget(s)].exists /\ files[UnitTarget(s)].source = UnitSource(s)
           /\ files[DefaultsTarget(s)].exists /\ files[DefaultsTarget(s)].source = DefaultsSource(s)
    /\ {RenderedKubeDir, RenderedManifestDir} \subseteq dirs
    /\ \A i \in TraceIndex : trace[i][1] = "makedirs" => i < First("check_output")
    /\ First("check_output") < First("render")

\* C19 (as claimed): an invocation of start_master or launch_dns whose
\* render_files completes has rendered the unit file and the defaults file
\* of all four services, and the working directories were created before
\* the credentials were saved.
C19_AllRenderedDirsFirst ==
    (handler \in {"start_master", "launch_dns"} /\ ReachedRender(trace) /\ err = "none") =>
        /\ AllRendered
        /\ \A i \in TraceIndex :
               trace[i][1] = "makedirs" =>
                   (Did("save_client_credentials") => i < First("save_client_credentials"))

\* C19 (amended): as above, but the working directories are created before
\* the architecture is queried and before any render, and after the
\* credentials were saved.
C19_AllRenderedDirsBeforeArch ==
    (handler \in {"start_master", "launch_dns"} /\ ReachedRender(trace) /\ err = "none") =>
        /\ AllRendered
        /\ handler = "start_master" <=> Did("save_client_credentials")
        /\ \A i \in TraceIndex :
               trace[i][1] = "makedirs" =>
                   (Did("save_client_credentials") => First("save_client_credentials") < i)

C19_Witness ==
    /\ handler = "start_master" /\ err = "none"
    /\ Did("save_client_credentials") /\ Did("makedirs") /\ Rendered(trace)

\* C20: in every state where kube-apiserver.available is set, the unit file
\* and the defaults file of kube-apiserver carry a context that has the
\* etcd connection string, the three credential paths and the directory.
C20_ApiserverFilesKeepEtcd ==
    AvailableFlag("kube-apiserver") \in flags =>
        \A p \in {UnitTarget("kube-apiserver"), DefaultsTarget("kube-apiserver")} :
            /\ files[p].exists
            /\ EtcdKeys \subseteq DOMAIN files[p].context

====
